---- MODULE Spec2Model ----
(***************************************************************************)
(* Model of ollama-downloader-v2: the PullModel goroutine of               *)
(* client/client.go, its two channels (progressCh, userChoiceCh), the      *)
(* cancellation context, the HTTP server it talks to and the consumer of   *)
(* its events.                                                             *)
(***************************************************************************)
EXTENDS Integers, Sequences, FiniteSets, TLC

\* ---- bounds of the model ------------------------------------------------
MaxAttempts == 3   \* HTTP requests issued in one session
MaxLines    == 2   \* lines scanned from response bodies in one session
MaxPushes   == 2   \* decisions the consumer pushes in one session
MaxAnswers  == 3   \* the same for a consumer that only ever sends one value
MaxSize     == 2   \* largest Completed and Total of a message given to Update
MaxFeed     == 2   \* messages given to Update when it is driven on its own

\* ---- values -------------------------------------------------------------
RetryOnce          == "Continue (until next error)"
RetryUntilComplete == "Continue (until download completed)"
Quit               == "Quit"
Unrecognized       == "Unrecognized"
Choices            == {RetryOnce, RetryUntilComplete, Quit, Unrecognized}

\* cap(userChoiceCh): unbuffered in main, 1 in client_test.go
ChoiceCaps == {0, 1}

\* cap(progressCh): unbuffered in main, 1 in client_test.go
ProgressCaps == {0, 1}

\* OllamaResponse values a line of the stream can decode to
Records ==
  { [Status |-> "downloading", Completed |-> 1, Total |-> 2],
    [Status |-> "success",     Completed |-> 2, Total |-> 2] }
NoMsg     == "none"

\* http.StatusOK, and the non-success status codes answered by the servers of
\* the tests
StatusOK    == 200
StatusCodes == {400, 500}

\* a line handed to json.Unmarshal, by what it decodes to
RecordLine(r) == [kind |-> "record", rec |-> r]
MalformedLine == [kind |-> "malformed"]

ProgressMsg(r) == [type |-> "ProgressMsg", Status |-> r.Status,
                   Completed |-> r.Completed, Total |-> r.Total]
TimeoutMsg     == [type |-> "TimeoutMsg"]
ErrorMsg(c)    == [type |-> "ErrorMsg", Err |-> c]
StatusErrorMsg(code) ==
  [type |-> "ErrorMsg", Err |-> "ollama API returned status", Code |-> code]

\* ui.go 90-92: the status NewModel starts with; percent starts as 0
ConnectingStatus == "Connecting to Ollama..."
ZeroPercent      == <<0, 1>>

VARIABLES
  pc,                     \* position of the PullModel goroutine
  continueUntilComplete,  \* parameter / local of PullModel
  downloadFinished,       \* local of PullModel
  msg,                    \* record being forwarded (pc = "sendProgress")
  ctxDone,                \* ctx.Done() is closed
  hostValid,              \* http.NewRequestWithContext accepts host
  progressCap,            \* cap(progressCh)
  sent,                   \* every value sent on progressCh, in order
  received,               \* how many of them the consumer has received
  closeCount,             \* number of close(progressCh) executed
  choiceCap,              \* cap(userChoiceCh)
  userChoiceCh,           \* values buffered in / offered on userChoiceCh
  pushes,                 \* decisions pushed by the consumer
  requests,               \* client.Do calls made
  lines,                  \* lines scanned so far
  \* history of the session, read by the properties only
  quitReceived,           \* where PullModel read "Quit": "no", "top", "wait"
  quitMark,               \* "Quit" was pushed mid-stream
  retryOnceRun,           \* so far every attempt that ended timed out and every
                          \* push answered a received TimeoutMsg with RetryOnce
  lastOutcome,            \* how the latest attempt ended ("ok": still streaming)
  lastStatus,             \* status code of the latest response, 0 if none
  cancelSeen,             \* where PullModel found ctx.Done() closed, or "no"
  scanned,                \* lines handed to json.Unmarshal so far
  waitReads,              \* values read from userChoiceCh in a wait that
                          \* follows a TimeoutMsg
  continueReads,          \* Continue decisions among them
  silentRetries,          \* attempts retried with no TimeoutMsg
  staleBody,              \* the response body of an attempt that has ended
                          \* still awaits its deferred Close
  \* the program of main: the tea.Program running ui.Model, and the goroutine
  \* that forwards progressCh to it
  uiState,                \* "absent": PullModel is driven by a test instead;
                          \* "idle": the event loop waits for a message;
                          \* "sending": Update is in its send on userChoiceCh;
                          \* "exited": p.Run() has returned;
                          \* "panicked": close of the closed quitUICh
  showList,               \* Model.showList
  quitting,               \* Model.quitting
  selectedChoice,         \* Model.selectedChoice
  quitUIClosed,           \* quitUICh is closed
  quitPending,            \* a tea.Quit returned by Update is not yet handled
  delivered,              \* values of progressCh the forwarder is done with
  fwd,                    \* forwarder: "ranging", "sendQuit" or "done"
  mainContinue,           \* continueUntilComplete of main (part_001 53)
  prevChoice,             \* the choice that ended the session before, "" in
                          \* the first session
  shouldQuit,             \* shouldQuit of main (part_001 54)
  status,                 \* Model.status
  percent                 \* Model.percent, as the fraction <<n, d>> in lowest
                          \* terms

vars == <<pc, continueUntilComplete, downloadFinished, msg, ctxDone, hostValid,
          progressCap, sent, received, closeCount,
          choiceCap, userChoiceCh, pushes, requests, lines,
          quitReceived, quitMark, retryOnceRun,
          lastOutcome, lastStatus, cancelSeen, scanned,
          waitReads, continueReads, silentRetries, staleBody,
          uiState, showList, quitting, selectedChoice, quitUIClosed,
          quitPending, delivered, fwd, mainContinue, prevChoice, shouldQuit,
          status, percent>>

ctlVars  == <<pc, continueUntilComplete, downloadFinished, msg>>
envVars  == <<ctxDone, hostValid, progressCap, choiceCap>>
progVars == <<sent, received, closeCount>>
userVars == <<userChoiceCh, pushes>>
cntVars  == <<requests, lines>>
obsVars  == <<lastOutcome, lastStatus, cancelSeen, scanned>>
histVars == <<quitReceived, quitMark, retryOnceRun>>
tallyVars == <<waitReads, continueReads, silentRetries, staleBody>>
mainVars == <<uiState, showList, quitting, selectedChoice, quitUIClosed,
              quitPending, delivered, fwd, mainContinue, prevChoice,
              shouldQuit, status, percent>>
viewVars == <<status, percent>>

\* ---- helpers ------------------------------------------------------------
Count(s, t) == Cardinality({i \in 1..Len(s) : s[i].type = t})
NumTimeout  == Count(sent, "TimeoutMsg")
NumError    == Count(sent, "ErrorMsg")

\* a value can be received from userChoiceCh without blocking
ChoiceReady == Len(userChoiceCh) > 0
\* the consumer is blocked in its send on userChoiceCh
PushBlocked == Len(userChoiceCh) > choiceCap

\* the receiver of progressCh is in its receive: a test's consumer always is,
\* the forwarder of main only when it is not inside p.Send
ReceiverWaiting == uiState = "absent" \/ delivered = received

\* progressCh <- m can complete: room in the buffer, or a receiver is waiting
CanSend == \/ Len(sent) - received < progressCap
           \/ progressCap = 0 /\ ReceiverWaiting

\* progressCh <- m
Send(m) ==
  /\ CanSend
  /\ sent' = Append(sent, m)
  /\ received' = IF progressCap = 0 THEN received + 1 ELSE received
  /\ closeCount' = closeCount

Init ==
  /\ pc = "top"
  /\ continueUntilComplete \in BOOLEAN
  /\ downloadFinished = FALSE
  /\ msg = NoMsg
  /\ ctxDone = FALSE
  /\ hostValid \in BOOLEAN
  /\ progressCap \in ProgressCaps
  /\ sent = <<>>
  /\ received = 0
  /\ closeCount = 0
  /\ choiceCap \in ChoiceCaps
  /\ userChoiceCh = <<>>
  /\ pushes = 0
  /\ requests = 0
  /\ lines = 0
  /\ quitReceived = "no"
  /\ quitMark = FALSE
  /\ retryOnceRun = TRUE
  /\ lastOutcome = "none"
  /\ lastStatus = 0
  /\ cancelSeen = "no"
  /\ scanned = <<>>
  /\ waitReads = 0
  /\ continueReads = 0
  /\ silentRetries = 0
  /\ staleBody = FALSE
  /\ uiState = "absent"
  /\ showList = FALSE
  /\ quitting = FALSE
  /\ selectedChoice = ""
  /\ quitUIClosed = FALSE
  /\ quitPending = FALSE
  /\ delivered = 0
  /\ fwd = "ranging"
  /\ mainContinue = FALSE
  /\ prevChoice = ""
  /\ shouldQuit = FALSE
  /\ status = ConnectingStatus
  /\ percent = ZeroPercent

\* ---- decisions taken by the code, as operators --------------------------

\* mutant: after discarding a value the check at the top of the loop runs
\* again before the request
TopAfterChoice_ChecksAgain(choice) == IF choice = Quit THEN "closing" ELSE "top"

\* mutant: the check at the top of the loop discards "Quit" like any other value
TopAfterChoice_QuitDiscarded(choice) == "request"

\* client.go 75-82: a decision read by the non-blocking select at the top of
\* the retry loop ends the session only when it is "Quit"
TopAfterChoice(choice) == IF choice = Quit THEN "closing" ELSE "request"

\* mutant: "Continue (until download completed)" read at the top of the loop
\* switches the mode as it does in a wait
ModeAfterTopChoice_UntilCompleteSwitches(choice, cuc) ==
  IF choice = RetryUntilComplete THEN TRUE ELSE cuc

\* mutant: "Continue (until next error)" read at the top of the loop switches
\* the mode back to prompting
ModeAfterTopChoice_RetryOnceResets(choice, cuc) ==
  IF choice = RetryOnce THEN FALSE ELSE cuc

\* client.go 74-79: a decision read at the top of the loop is compared with
\* "Quit" only; nothing is assigned to continueUntilComplete
ModeAfterTopChoice(choice, cuc) == cuc

\* mutant: a timeout is retried silently in either mode
AfterTimeout_NeverReported(cuc) == "top"

\* mutant: a timeout is reported in either mode
AfterTimeout_AlwaysReported(cuc) == "sendTimeout"

\* client.go 105-110, 220-225: a timed-out attempt retries silently in
\* continue-until-complete mode and reports a TimeoutMsg otherwise
AfterTimeout(cuc) == IF cuc THEN "top" ELSE "sendTimeout"

\* mutant: the line scanned when cancellation is seen is forwarded all the same
AfterScanCancelled_Forwards(cuc) == "sendProgress"

\* client.go 162-194: cancellation seen in the scan loop; both "continue"
\* statements of this branch continue the scanner loop
AfterScanCancelled(cuc) == IF cuc THEN "scan" ELSE "sendTimeoutInScan"

\* mutant: a stream that ends without success is retried at once in either
\* mode, with nothing reported
AfterCleanEnd_RetriesUnreported(finished, cuc) ==
  IF finished THEN "closing" ELSE "top"

\* mutant: a clean end of the stream is classified without regard to the
\* success record
AfterCleanEnd_IgnoresSuccess(finished, cuc) ==
  IF cuc THEN "top" ELSE "sendTimeout"

\* mutant: a clean end of the stream ends the session, success or not
AfterCleanEnd_AlwaysDone(finished, cuc) == "closing"

\* client.go 262-296: the stream ended without a read error
AfterCleanEnd(finished, cuc) ==
  IF finished THEN "closing"
  ELSE IF ~cuc THEN "sendTimeout"
  ELSE "top"

\* mutant: every scanner error, a deadline included, is reported as an error
AfterScanEnd_DeadlineFatal(term, finished, cuc) ==
  CASE term \in {"deadline", "readerr"} -> "sendError"
    [] OTHER -> AfterCleanEnd(finished, cuc)

\* client.go 216-258: classification of scanner.Err()
AfterScanEnd(term, finished, cuc) ==
  CASE term = "deadline" -> AfterTimeout(cuc)
    [] term = "readerr"  -> "sendError"
    [] OTHER             -> AfterCleanEnd(finished, cuc)

\* mutant: only "Quit" ends the session, any other value continues
AfterWaitChoice_UnknownContinues(choice, loop) ==
  IF choice = Quit THEN "closing" ELSE loop

\* mutant: the "Quit" and default branches return without close(progressCh)
AfterWaitChoice_NoClose(choice, loop) ==
  IF choice \in {RetryOnce, RetryUntilComplete} THEN loop ELSE "done"

\* client.go 113-130 (and its three copies): position after a decision read
\* in the wait that follows a TimeoutMsg; loop is where "continue" leads
AfterWaitChoice(choice, loop) ==
  IF choice \in {RetryOnce, RetryUntilComplete} THEN loop ELSE "closing"

\* mutant: cancellation seen while waiting restarts the retry loop
AfterWaitCancelled_Continue == "top"

\* client.go 131-134, 184-187, 246-249, 288-291: cancellation seen while
\* waiting for a decision: close(progressCh) and return
AfterWaitCancelled == "closing"

\* mutant: either Continue decision switches to continue-until-complete
ModeAfterWaitChoice_AnyContinue(choice, cuc) ==
  IF choice \in {RetryOnce, RetryUntilComplete} THEN TRUE ELSE cuc

\* client.go 118-121: the mode after a decision read in that wait
ModeAfterWaitChoice(choice, cuc) ==
  IF choice = RetryUntilComplete THEN TRUE ELSE cuc

\* mutant: the goroutine goes on with the retry loop after an ErrorMsg
AfterSendError_Retry == "top"

\* client.go 58-60, 89-91, 139-141, 150-152, 254-256: close and return
AfterSendError == "closing"

\* mutant: a non-success status is retried like a timeout
AfterBadStatus_Retry == "top"

\* client.go 146-153: a status other than 200 is reported and ends the session
AfterBadStatus == "sendError"

\* mutant: a line that fails to decode ends the attempt
AfterMalformed_EndsAttempt == "top"

\* client.go 196-200: json.Unmarshal fails: the line is logged and skipped
AfterMalformed == "scan"

\* mutant: Completed and Total are exchanged in the message
ProgressOf_Swapped(r) ==
  [type |-> "ProgressMsg", Status |-> r.Status,
   Completed |-> r.Total, Total |-> r.Completed]

\* client.go 206-210: the ProgressMsg built from a decoded record
ProgressOf(r) == ProgressMsg(r)

\* mutant: downloadFinished follows the latest record
FinishedAfter_LatestRecord(r, finished) == r.Status = "success"

\* client.go 202-204
FinishedAfter(r, finished) == finished \/ r.Status = "success"

\* ---- the PullModel goroutine --------------------------------------------

\* client.go 69-73
TopCancelled ==
  /\ pc = "top"
  /\ ctxDone
  /\ pc' = "closing"
  /\ UNCHANGED <<continueUntilComplete, downloadFinished, msg>>
  /\ UNCHANGED <<envVars, progVars, userVars, cntVars>>
  /\ UNCHANGED <<quitReceived, quitMark, retryOnceRun>>
  /\ cancelSeen' = "top"
  /\ UNCHANGED <<lastOutcome, lastStatus, scanned>>
  /\ UNCHANGED mainVars
  /\ UNCHANGED tallyVars

\* client.go 74-79
TopChoice ==
  /\ pc = "top"
  /\ ChoiceReady
  /\ pc' = TopAfterChoice(Head(userChoiceCh))
  /\ userChoiceCh' = Tail(userChoiceCh)
  /\ continueUntilComplete' =
       ModeAfterTopChoice(Head(userChoiceCh), continueUntilComplete)
  /\ UNCHANGED <<downloadFinished, msg, pushes>>
  /\ UNCHANGED <<envVars, progVars, cntVars>>
  /\ quitReceived' = IF Head(userChoiceCh) = Quit THEN "top" ELSE quitReceived
  /\ UNCHANGED <<quitMark, retryOnceRun>>
  /\ UNCHANGED obsVars
  /\ UNCHANGED mainVars
  /\ UNCHANGED tallyVars

\* client.go 80-82
TopDefault ==
  /\ pc = "top"
  /\ ~ctxDone
  /\ ~ChoiceReady
  /\ pc' = "request"
  /\ UNCHANGED <<continueUntilComplete, downloadFinished, msg>>
  /\ UNCHANGED <<envVars, progVars, userVars, cntVars>>
  /\ UNCHANGED <<quitReceived, quitMark, retryOnceRun>>
  /\ UNCHANGED obsVars
  /\ UNCHANGED mainVars
  /\ UNCHANGED tallyVars

\* client.go 84-92
RequestCreateError ==
  /\ pc = "request"
  /\ ~hostValid
  /\ pc' = "sendError"
  /\ msg' = ErrorMsg("error creating request")
  /\ UNCHANGED <<continueUntilComplete, downloadFinished>>
  /\ UNCHANGED <<envVars, progVars, userVars, cntVars>>
  /\ UNCHANGED <<quitReceived, quitMark, retryOnceRun>>
  /\ lastOutcome' = "createError"
  /\ UNCHANGED <<lastStatus, cancelSeen, scanned>>
  /\ UNCHANGED mainVars
  /\ UNCHANGED tallyVars

\* client.Do is called (client.go 95)
DoCalled ==
  /\ pc = "request"
  /\ hostValid
  /\ requests < MaxAttempts
  /\ requests' = requests + 1
  /\ UNCHANGED <<lines, continueUntilComplete, downloadFinished>>
  /\ UNCHANGED <<envVars, progVars, userVars>>
  /\ UNCHANGED <<cancelSeen, scanned>>
  /\ UNCHANGED mainVars
  /\ UNCHANGED <<waitReads, continueReads>>

\* client.go 96-110: client.Do fails with a deadline or a net timeout
DoTimeout ==
  /\ DoCalled
  /\ ~ctxDone
  /\ pc' = AfterTimeout(continueUntilComplete)
  /\ msg' = NoMsg
  /\ silentRetries' =
       IF continueUntilComplete /\ AfterTimeout(continueUntilComplete) = "top"
       THEN silentRetries + 1 ELSE silentRetries
  /\ UNCHANGED staleBody
  /\ UNCHANGED <<quitReceived, quitMark, retryOnceRun>>
  /\ lastOutcome' = "doTimeout"
  /\ lastStatus' = 0

\* client.go 137-142: client.Do fails otherwise; with ctx cancelled it
\* fails with context.Canceled, which is no timeout
DoError ==
  /\ DoCalled
  /\ pc' = "sendError"
  /\ msg' = ErrorMsg("error pulling model")
  /\ UNCHANGED <<silentRetries, staleBody>>
  /\ retryOnceRun' = FALSE
  /\ UNCHANGED <<quitReceived, quitMark>>
  /\ lastOutcome' = "doError"
  /\ lastStatus' = 0

\* client.go 146-153
DoBadStatus(code) ==
  /\ DoCalled
  /\ ~ctxDone
  /\ pc' = AfterBadStatus
  /\ msg' = StatusErrorMsg(code)
  /\ UNCHANGED <<silentRetries, staleBody>>
  /\ retryOnceRun' = FALSE
  /\ UNCHANGED <<quitReceived, quitMark>>
  /\ lastOutcome' = "badStatus"
  /\ lastStatus' = code

\* client.go 155: status 200, the body is scanned
DoOK ==
  /\ DoCalled
  /\ ~ctxDone
  /\ pc' = "scan"
  /\ msg' = NoMsg
  /\ UNCHANGED <<silentRetries, staleBody>>
  /\ UNCHANGED <<quitReceived, quitMark, retryOnceRun>>
  /\ lastOutcome' = "ok"
  /\ lastStatus' = StatusOK

\* client.go 156-194: scanner.Scan() returns a line and ctx is cancelled
ScanCancelled ==
  /\ pc = "scan"
  /\ lines < MaxLines
  /\ ctxDone
  /\ lines' = lines + 1
  /\ pc' = AfterScanCancelled(continueUntilComplete)
  /\ UNCHANGED <<continueUntilComplete, downloadFinished, msg, requests>>
  /\ UNCHANGED <<envVars, progVars, userVars>>
  /\ retryOnceRun' = FALSE
  /\ UNCHANGED <<quitReceived, quitMark>>
  /\ cancelSeen' = "scan"
  /\ UNCHANGED <<lastOutcome, lastStatus, scanned>>
  /\ UNCHANGED mainVars
  /\ UNCHANGED tallyVars

\* client.go 195-200: the line is not a JSON record
ScanMalformed ==
  /\ pc = "scan"
  /\ lines < MaxLines
  /\ ~ctxDone
  /\ lines' = lines + 1
  /\ pc' = AfterMalformed
  /\ UNCHANGED <<continueUntilComplete, downloadFinished, msg, requests>>
  /\ UNCHANGED <<envVars, progVars, userVars>>
  /\ UNCHANGED <<quitReceived, quitMark, retryOnceRun>>
  /\ scanned' = Append(scanned, MalformedLine)
  /\ UNCHANGED <<lastOutcome, lastStatus, cancelSeen>>
  /\ UNCHANGED mainVars
  /\ UNCHANGED tallyVars

\* client.go 195-210: the line is a record
ScanRecord(r) ==
  /\ pc = "scan"
  /\ lines < MaxLines
  /\ ~ctxDone
  /\ lines' = lines + 1
  /\ downloadFinished' = FinishedAfter(r, downloadFinished)
  /\ msg' = ProgressOf(r)
  /\ pc' = "sendProgress"
  /\ UNCHANGED <<continueUntilComplete, requests>>
  /\ UNCHANGED <<envVars, progVars, userVars>>
  /\ UNCHANGED <<quitReceived, quitMark, retryOnceRun>>
  /\ scanned' = Append(scanned, RecordLine(r))
  /\ UNCHANGED <<lastOutcome, lastStatus, cancelSeen>>
  /\ UNCHANGED mainVars
  /\ UNCHANGED tallyVars

\* client.go 206-210
SendProgress ==
  /\ pc = "sendProgress"
  /\ Send(msg)
  /\ pc' = "scan"
  /\ msg' = NoMsg
  /\ UNCHANGED <<continueUntilComplete, downloadFinished>>
  /\ UNCHANGED <<envVars, userVars, cntVars>>
  /\ UNCHANGED <<quitReceived, quitMark, retryOnceRun>>
  /\ UNCHANGED obsVars
  /\ UNCHANGED mainVars
  /\ UNCHANGED tallyVars

\* client.go 212-301: scanner.Scan() returns false
ScanEnd(term) ==
  /\ pc = "scan"
  /\ pc' = AfterScanEnd(term, downloadFinished, continueUntilComplete)
  /\ msg' = IF AfterScanEnd(term, downloadFinished, continueUntilComplete)
                 = "sendError"
             THEN ErrorMsg("error reading response") ELSE NoMsg
  /\ UNCHANGED <<continueUntilComplete, downloadFinished>>
  /\ UNCHANGED <<envVars, progVars, userVars, cntVars>>
  /\ retryOnceRun' = (retryOnceRun /\ term = "deadline")
  /\ UNCHANGED <<quitReceived, quitMark>>
  /\ lastOutcome' = term
  /\ UNCHANGED <<lastStatus, cancelSeen, scanned>>
  /\ UNCHANGED mainVars
  /\ silentRetries' =
       IF /\ continueUntilComplete
          /\ AfterScanEnd(term, downloadFinished, continueUntilComplete) = "top"
       THEN silentRetries + 1 ELSE silentRetries
  /\ staleBody' = TRUE
  /\ UNCHANGED <<waitReads, continueReads>>

\* client.go 110, 225, 267
SendTimeout ==
  /\ pc = "sendTimeout"
  /\ Send(TimeoutMsg)
  /\ pc' = "wait"
  /\ UNCHANGED <<continueUntilComplete, downloadFinished, msg>>
  /\ UNCHANGED <<envVars, userVars, cntVars>>
  /\ UNCHANGED <<quitReceived, quitMark, retryOnceRun>>
  /\ UNCHANGED obsVars
  /\ UNCHANGED mainVars
  /\ UNCHANGED tallyVars

\* client.go 163
SendTimeoutInScan ==
  /\ pc = "sendTimeoutInScan"
  /\ Send(TimeoutMsg)
  /\ pc' = "waitInScan"
  /\ UNCHANGED <<continueUntilComplete, downloadFinished, msg>>
  /\ UNCHANGED <<envVars, userVars, cntVars>>
  /\ UNCHANGED <<quitReceived, quitMark, retryOnceRun>>
  /\ UNCHANGED obsVars
  /\ UNCHANGED mainVars
  /\ UNCHANGED tallyVars

\* client.go 112-130, 227-245, 269-287: "continue" restarts the retry loop
WaitChoice ==
  /\ pc = "wait"
  /\ ChoiceReady
  /\ pc' = AfterWaitChoice(Head(userChoiceCh), "top")
  /\ continueUntilComplete' =
       ModeAfterWaitChoice(Head(userChoiceCh), continueUntilComplete)
  /\ userChoiceCh' = Tail(userChoiceCh)
  /\ UNCHANGED <<downloadFinished, msg, pushes>>
  /\ UNCHANGED <<envVars, progVars, cntVars>>
  /\ quitReceived' = IF Head(userChoiceCh) = Quit THEN "wait" ELSE quitReceived
  /\ UNCHANGED <<quitMark, retryOnceRun>>
  /\ UNCHANGED obsVars
  /\ UNCHANGED mainVars
  /\ waitReads' = waitReads + 1
  /\ continueReads' =
       IF Head(userChoiceCh) \in {RetryOnce, RetryUntilComplete}
       THEN continueReads + 1 ELSE continueReads
  /\ UNCHANGED <<silentRetries, staleBody>>

\* client.go 165-183: "continue" goes on with the scanner loop
WaitChoiceInScan ==
  /\ pc = "waitInScan"
  /\ ChoiceReady
  /\ pc' = AfterWaitChoice(Head(userChoiceCh), "scan")
  /\ continueUntilComplete' =
       ModeAfterWaitChoice(Head(userChoiceCh), continueUntilComplete)
  /\ userChoiceCh' = Tail(userChoiceCh)
  /\ UNCHANGED <<downloadFinished, msg, pushes>>
  /\ UNCHANGED <<envVars, progVars, cntVars>>
  /\ quitReceived' = IF Head(userChoiceCh) = Quit THEN "wait" ELSE quitReceived
  /\ UNCHANGED <<quitMark, retryOnceRun>>
  /\ UNCHANGED obsVars
  /\ UNCHANGED mainVars
  /\ waitReads' = waitReads + 1
  /\ continueReads' =
       IF Head(userChoiceCh) \in {RetryOnce, RetryUntilComplete}
       THEN continueReads + 1 ELSE continueReads
  /\ UNCHANGED <<silentRetries, staleBody>>

\* client.go 131-134, 184-187, 246-249, 288-291
WaitCancelled ==
  /\ pc \in {"wait", "waitInScan"}
  /\ ctxDone
  /\ pc' = AfterWaitCancelled
  /\ UNCHANGED <<continueUntilComplete, downloadFinished, msg>>
  /\ UNCHANGED <<envVars, progVars, userVars, cntVars>>
  /\ UNCHANGED <<quitReceived, quitMark, retryOnceRun>>
  /\ cancelSeen' = "wait"
  /\ UNCHANGED <<lastOutcome, lastStatus, scanned>>
  /\ UNCHANGED mainVars
  /\ UNCHANGED tallyVars

\* client.go 89, 139, 150, 254
SendError ==
  /\ pc = "sendError"
  /\ Send(msg)
  /\ pc' = AfterSendError
  /\ msg' = NoMsg
  /\ UNCHANGED <<continueUntilComplete, downloadFinished>>
  /\ UNCHANGED <<envVars, userVars, cntVars>>
  /\ UNCHANGED <<quitReceived, quitMark, retryOnceRun>>
  /\ UNCHANGED obsVars
  /\ UNCHANGED mainVars
  /\ UNCHANGED tallyVars

\* every close(progressCh) of PullModel, each followed by return
Close ==
  /\ pc = "closing"
  /\ closeCount' = closeCount + 1
  /\ pc' = "done"
  /\ UNCHANGED <<continueUntilComplete, downloadFinished, msg, sent, received>>
  /\ UNCHANGED <<envVars, userVars, cntVars>>
  /\ UNCHANGED <<quitReceived, quitMark, retryOnceRun>>
  /\ UNCHANGED obsVars
  /\ UNCHANGED mainVars
  /\ staleBody' = FALSE
  /\ UNCHANGED <<waitReads, continueReads, silentRetries>>

\* the steps of PullModel that occur in the program of main; there ctx is
\* cancelled only after p.Run() has returned, so no decision is sent any more
\* when cancellation is seen in the scan loop
PullModelInMain ==
  \/ TopCancelled \/ TopChoice \/ TopDefault
  \/ RequestCreateError \/ DoTimeout \/ DoError \/ DoOK
  \/ (\E code \in StatusCodes : DoBadStatus(code))
  \/ ScanCancelled \/ ScanMalformed
  \/ (\E r \in Records : ScanRecord(r))
  \/ (\E term \in {"eof", "deadline", "readerr"} : ScanEnd(term))
  \/ SendProgress \/ SendTimeout \/ SendTimeoutInScan \/ SendError
  \/ WaitChoice \/ WaitCancelled
  \/ Close

PullModel == PullModelInMain \/ WaitChoiceInScan

\* ---- the environment ----------------------------------------------------

\* PullModel is at a close(progressCh) that is followed by return, or has
\* returned: it reads neither ctx.Done() nor userChoiceCh any more
Returning == pc \in {"closing", "done"}

\* the cancel function of ctx is called (not followed further once
\* PullModel is returning, where it has no effect on it)
Cancel ==
  /\ ~Returning
  /\ ~ctxDone
  /\ ctxDone' = TRUE
  /\ UNCHANGED <<hostValid, progressCap, choiceCap>>
  /\ UNCHANGED <<ctlVars, progVars, userVars, cntVars>>
  /\ UNCHANGED <<quitReceived, quitMark, retryOnceRun>>
  /\ UNCHANGED obsVars
  /\ UNCHANGED mainVars
  /\ UNCHANGED tallyVars

\* the consumer receives the next buffered value of progressCh
Receive ==
  /\ received < Len(sent)
  /\ received' = received + 1
  /\ UNCHANGED <<sent, closeCount>>
  /\ UNCHANGED <<ctlVars, envVars, userVars, cntVars>>
  /\ UNCHANGED <<quitReceived, quitMark, retryOnceRun>>
  /\ UNCHANGED obsVars
  /\ UNCHANGED mainVars
  /\ UNCHANGED tallyVars

\* the consumer sends a decision on userChoiceCh, at most bound of them in a
\* session
PushUpTo(choice, bound) ==
  /\ ~Returning
  /\ pushes < bound
  /\ ~PushBlocked
  /\ userChoiceCh' = Append(userChoiceCh, choice)
  /\ pushes' = pushes + 1
  /\ UNCHANGED <<ctlVars, envVars, progVars, cntVars>>
  /\ retryOnceRun' =
       /\ retryOnceRun
       /\ choice = RetryOnce
       /\ pushes < Count(SubSeq(sent, 1, received), "TimeoutMsg")
  /\ quitMark' =
       \/ quitMark
       \/ /\ choice = Quit /\ pc = "scan"
          /\ ~ctxDone /\ received = Len(sent)
  /\ UNCHANGED quitReceived
  /\ UNCHANGED obsVars
  /\ UNCHANGED mainVars
  /\ UNCHANGED tallyVars

Push(choice) == PushUpTo(choice, MaxPushes)

Next ==
  \/ PullModel
  \/ Cancel
  \/ Receive
  \/ (\E choice \in Choices : Push(choice))

Spec == Init /\ [][Next]_vars

\* sessions whose consumer sends nothing but "Continue (until next error)"
PushRetryOnce == PushUpTo(RetryOnce, MaxAnswers)

NextRetryOnce ==
  \/ PullModel
  \/ Cancel
  \/ Receive
  \/ PushRetryOnce

SpecRetryOnce == Init /\ [][NextRetryOnce]_vars

\* ---- the program of main: PullModel, forwarder and UI -------------------

\* the items of the list shown after a TimeoutMsg (ui.go 76-80)
ListItems == {RetryOnce, RetryUntilComplete, Quit}

\* part_001 53, 65-79: the first session of main's loop: the mode is
\* Interactive, both channels are unbuffered, the UI starts with its list hidden
InitMain ==
  /\ pc = "top"
  /\ continueUntilComplete = FALSE
  /\ downloadFinished = FALSE
  /\ msg = NoMsg
  /\ ctxDone = FALSE
  /\ hostValid \in BOOLEAN
  /\ progressCap = 0
  /\ sent = <<>>
  /\ received = 0
  /\ closeCount = 0
  /\ choiceCap = 0
  /\ userChoiceCh = <<>>
  /\ pushes = 0
  /\ requests = 0
  /\ lines = 0
  /\ quitReceived = "no"
  /\ quitMark = FALSE
  /\ retryOnceRun = TRUE
  /\ lastOutcome = "none"
  /\ lastStatus = 0
  /\ cancelSeen = "no"
  /\ scanned = <<>>
  /\ waitReads = 0
  /\ continueReads = 0
  /\ silentRetries = 0
  /\ staleBody = FALSE
  /\ uiState = "idle"
  /\ showList = FALSE
  /\ quitting = FALSE
  /\ selectedChoice = ""
  /\ quitUIClosed = FALSE
  /\ quitPending = FALSE
  /\ delivered = 0
  /\ fwd = "ranging"
  /\ mainContinue = FALSE
  /\ prevChoice = ""
  /\ shouldQuit = FALSE
  /\ status = ConnectingStatus
  /\ percent = ZeroPercent

\* variables of PullModel, its bookkeeping and main's loop that the UI, the
\* forwarder and the cancel() of main leave alone
sessionVars == <<continueUntilComplete, downloadFinished, msg, hostValid,
                 progressCap, choiceCap, sent, received, closeCount,
                 requests, lines, histVars, obsVars, tallyVars,
                 mainContinue, prevChoice, shouldQuit>>

\* ui.go 122-123, 132-133, 159-160: close(m.quitUICh), then the send on
\* userChoiceCh, in which Update stays until PullModel receives; closing the
\* closed quitUICh panics and ends the process
UISend(choice) ==
  IF quitUIClosed
  THEN /\ uiState' = "panicked"
       /\ pc' = "crashed"
       /\ UNCHANGED <<quitUIClosed, userChoiceCh, pushes>>
  ELSE /\ quitUIClosed' = TRUE
       /\ userChoiceCh' = Append(userChoiceCh, choice)
       /\ pushes' = pushes + 1
       /\ uiState' = "sending"
       /\ pc' = pc

\* ui.go 117-124: Update(KeyMsg) for "q" and "ctrl+c"
UIKeyQuit ==
  /\ uiState = "idle"
  /\ quitting' = TRUE
  /\ selectedChoice' = Quit
  /\ UISend(Quit)
  /\ UNCHANGED <<showList, quitPending, delivered, fwd, ctxDone, sessionVars,
                 viewVars>>

\* mutant: "enter" sends the selected item whether the list is shown or not
EnterSends_Always(shown) == TRUE

\* ui.go 126-127: "enter" sends a choice only while the list is shown
EnterSends(shown) == shown

\* ui.go 126-135: Update(KeyMsg) for "enter" while the list is shown; the
\* user has moved the cursor of the list to item choice
UIKeyEnter(choice) ==
  /\ uiState = "idle"
  /\ EnterSends(showList)
  /\ selectedChoice' = choice
  /\ UISend(choice)
  /\ UNCHANGED <<showList, quitting, quitPending, delivered, fwd, ctxDone, sessionVars,
                 viewVars>>

\* the forwarder is inside p.Send with a value of progressCh of this type
\* and the event loop is ready to take it (part_001 83-85)
Forwarding(type) ==
  /\ uiState = "idle"
  /\ delivered < received
  /\ sent[delivered + 1].type = type
  /\ delivered' = delivered + 1

\* greatest common divisor of two naturals
RECURSIVE Gcd(_, _)
Gcd(a, b) == IF b = 0 THEN a ELSE Gcd(b, a % b)

\* ui.go 148: float64(completed) / float64(total) for total > 0, as a
\* fraction in lowest terms
Ratio(completed, total) ==
  LET g == Gcd(completed, total)
  IN  <<completed \div g, total \div g>>

\* mutant: a message of unknown size resets the bar
PercentAfter_ZeroResets(m, pct) ==
  IF m.Total > 0 THEN Ratio(m.Completed, m.Total) ELSE ZeroPercent

\* ui.go 147-149: Model.percent after Update(ProgressMsg)
PercentAfter(m, pct) ==
  IF m.Total > 0 THEN Ratio(m.Completed, m.Total) ELSE pct

\* ui.go 157: fmt.Sprintf("Error: %s", msg.Err)
ErrorStatus(m) ==
  "Error: " \o m.Err \o
    (IF "Code" \in DOMAIN m THEN " " \o ToString(m.Code) ELSE "")

\* ui.go 145-150: Update(ProgressMsg)
UIProgress ==
  /\ Forwarding("ProgressMsg")
  /\ status' = sent[delivered + 1].Status
  /\ percent' = PercentAfter(sent[delivered + 1], percent)
  /\ UNCHANGED <<uiState, showList, quitting, selectedChoice, quitUIClosed,
                 quitPending, fwd, pc, ctxDone, userChoiceCh, pushes, sessionVars>>

\* ui.go 152-154: Update(TimeoutMsg)
UITimeout ==
  /\ Forwarding("TimeoutMsg")
  /\ showList' = TRUE
  /\ UNCHANGED <<uiState, quitting, selectedChoice, quitUIClosed, quitPending,
                 fwd, pc, ctxDone, userChoiceCh, pushes, sessionVars,
                 viewVars>>

\* ui.go 156-161: Update(ErrorMsg)
UIError ==
  /\ Forwarding("ErrorMsg")
  /\ status' = ErrorStatus(sent[delivered + 1])
  /\ UNCHANGED percent
  /\ selectedChoice' = Quit
  /\ UISend(Quit)
  /\ UNCHANGED <<showList, quitting, quitPending, fwd, ctxDone, sessionVars>>

\* ui.go 124, 134, 161: the send on userChoiceCh was received and Update
\* returns tea.Quit, whose QuitMsg reaches the event loop later
UpdateReturns ==
  /\ uiState = "sending"
  /\ userChoiceCh = <<>>
  /\ uiState' = "idle"
  /\ quitPending' = TRUE
  /\ UNCHANGED <<showList, quitting, selectedChoice, quitUIClosed, delivered, fwd,
                 pc, ctxDone, userChoiceCh, pushes, sessionVars,
                 viewVars>>

\* part_001 96: the event loop handles the QuitMsg and p.Run() returns
UIQuitMsg ==
  /\ uiState = "idle"
  /\ quitPending
  /\ uiState' = "exited"
  /\ quitPending' = FALSE
  /\ UNCHANGED <<showList, quitting, selectedChoice, quitUIClosed, delivered, fwd,
                 pc, ctxDone, userChoiceCh, pushes, sessionVars,
                 viewVars>>

\* part_001 84: p.Send returns at once when the program has finished
FwdDropped ==
  /\ fwd = "ranging"
  /\ uiState = "exited"
  /\ delivered < received
  /\ delivered' = delivered + 1
  /\ UNCHANGED <<uiState, showList, quitting, selectedChoice, quitUIClosed,
                 quitPending, fwd, pc, ctxDone, userChoiceCh, pushes, sessionVars,
                 viewVars>>

\* part_001 83, 88-92: the range over progressCh ends when the channel is
\* closed and drained; the forwarder then checks quitUICh
FwdClosed ==
  /\ fwd = "ranging"
  /\ uiState # "panicked"
  /\ closeCount >= 1
  /\ delivered = Len(sent)
  /\ fwd' = IF quitUIClosed THEN "done" ELSE "sendQuit"
  /\ UNCHANGED <<uiState, showList, quitting, selectedChoice, quitUIClosed,
                 quitPending, delivered, pc, ctxDone, userChoiceCh, pushes, sessionVars,
                 viewVars>>

\* part_001 91: p.Send(tea.Quit()): the event loop takes the QuitMsg and
\* p.Run() returns, or the program has finished already
FwdSendQuit ==
  /\ fwd = "sendQuit"
  /\ uiState \in {"idle", "exited"}
  /\ fwd' = "done"
  /\ uiState' = "exited"
  /\ UNCHANGED <<showList, quitting, selectedChoice, quitUIClosed, quitPending,
                 delivered, pc, ctxDone, userChoiceCh, pushes, sessionVars,
                 viewVars>>

\* part_001 96-110: p.Run() has returned and main calls cancel()
MainCancel ==
  /\ uiState = "exited"
  /\ ~ctxDone
  /\ ctxDone' = TRUE
  /\ UNCHANGED <<uiState, showList, quitting, selectedChoice, quitUIClosed,
                 quitPending, delivered, fwd, pc, userChoiceCh, pushes, sessionVars,
                 viewVars>>

\* mutant: main's switch leaves continueUntilComplete as it is
MainModeAfter_KeepsMode(choice, cuc) == cuc

\* part_001 112-121: continueUntilComplete of main after its switch on the
\* choice selected in the session that ended
MainModeAfter(choice, cuc) ==
  IF choice = RetryOnce THEN FALSE
  ELSE IF choice = RetryUntilComplete THEN TRUE
  ELSE cuc

\* mutant: main's loop goes on whatever the choice was
MainContinues_Always(choice) == TRUE

\* part_001 56-58, 112-138: main's switch leaves shouldQuit false for the two
\* Continue choices only; "Quit" and every other value (the empty choice of
\* a session that ended by itself) set it, and the loop breaks
MainContinues(choice) == choice \in {RetryOnce, RetryUntilComplete}

\* part_001 57-79, 110-140: after cancel() main's switch on the selected
\* choice sets continueUntilComplete for a Continue choice (any other choice
\* ends the loop), and the next iteration starts a session with new channels,
\* a new Model and a new PullModel; the goroutines of the session before work
\* on channels of their own and are followed no further
MainNextSession ==
  /\ uiState = "exited"
  /\ ctxDone
  /\ ~shouldQuit
  /\ MainContinues(selectedChoice)
  /\ mainContinue' = MainModeAfter(selectedChoice, mainContinue)
  /\ prevChoice' = selectedChoice
  /\ pc' = "top"
  /\ continueUntilComplete' = mainContinue'
  /\ downloadFinished' = FALSE
  /\ msg' = NoMsg
  /\ ctxDone' = FALSE
  /\ UNCHANGED <<hostValid, progressCap, choiceCap>>
  /\ sent' = <<>> /\ received' = 0 /\ closeCount' = 0
  /\ userChoiceCh' = <<>> /\ pushes' = 0
  /\ requests' = 0 /\ lines' = 0
  /\ quitReceived' = "no" /\ quitMark' = FALSE /\ retryOnceRun' = TRUE
  /\ lastOutcome' = "none" /\ lastStatus' = 0
  /\ cancelSeen' = "no" /\ scanned' = <<>>
  /\ waitReads' = 0 /\ continueReads' = 0
  /\ silentRetries' = 0 /\ staleBody' = FALSE
  /\ uiState' = "idle"
  /\ showList' = FALSE /\ quitting' = FALSE /\ selectedChoice' = ""
  /\ quitUIClosed' = FALSE /\ quitPending' = FALSE
  /\ delivered' = 0 /\ fwd' = "ranging"
  /\ status' = ConnectingStatus /\ percent' = ZeroPercent
  /\ UNCHANGED shouldQuit

\* part_001 56-58, 122-144: the switch sets shouldQuit, the loop breaks and
\* main returns: the process ends, and with it the goroutines of PullModel
\* and of the forwarder wherever they are
MainEnd ==
  /\ uiState = "exited"
  /\ ctxDone
  /\ ~shouldQuit
  /\ ~MainContinues(selectedChoice)
  /\ shouldQuit' = TRUE
  /\ pc' = "exited"
  /\ fwd' = "done"
  /\ UNCHANGED <<continueUntilComplete, downloadFinished, msg, ctxDone,
                 hostValid, progressCap, choiceCap, progVars, userVars,
                 cntVars, histVars, obsVars, tallyVars, uiState, showList,
                 quitting, selectedChoice, quitUIClosed, quitPending,
                 delivered, mainContinue, prevChoice, viewVars>>

NextMain ==
  \/ PullModelInMain
  \/ UIKeyQuit
  \/ (\E choice \in ListItems : UIKeyEnter(choice))
  \/ UIProgress \/ UITimeout \/ UIError
  \/ UpdateReturns \/ UIQuitMsg
  \/ FwdDropped \/ FwdClosed \/ FwdSendQuit
  \/ MainCancel
  \/ MainNextSession
  \/ MainEnd

SpecMain == InitMain /\ [][NextMain]_vars

\* ---- Model.Update on its own, as ui_test.go drives it ---------------------

\* ui_test.go 110, 120: the messages handed to Update: any status, and sizes
\* as the server reports them, a Total of 0 or less for "unknown size"
ProgressInputs ==
  { [type |-> "ProgressMsg", Status |-> s, Completed |-> c, Total |-> t] :
      s \in {"starting", "downloading", "success"},
      c \in 0..MaxSize, t \in (-1)..MaxSize }

\* ui_test.go 16-22, 109: a new Model and no PullModel
InitUpdate ==
  /\ InitMain
  /\ hostValid

\* ui_test.go 111, 121, 131: the test hands Update its next message, once
\* Update has returned from the one before
Feed(m) ==
  /\ uiState = "idle"
  /\ delivered = Len(sent)
  /\ Len(sent) < MaxFeed
  /\ sent' = Append(sent, m)
  /\ received' = received + 1
  /\ UNCHANGED <<ctlVars, envVars, closeCount, userVars, cntVars, histVars,
                 obsVars, tallyVars, mainVars>>

NextUpdate ==
  \/ (\E m \in ProgressInputs \cup {TimeoutMsg} : Feed(m))
  \/ UIProgress
  \/ UITimeout

SpecUpdate == InitUpdate /\ [][NextUpdate]_vars

\* ---- properties ---------------------------------------------------------

\* positions in which PullModel is sending on progressCh
SendPcs == {"sendProgress", "sendTimeout", "sendTimeoutInScan", "sendError"}

\* C1: progressCh is closed at most once, and once the goroutine has
\* terminated it has been closed exactly once
C1_ClosedExactlyOnce ==
  /\ closeCount <= 1
  /\ pc = "done" => closeCount = 1

\* a session that timed out, was continued, succeeded and has returned
C1_Witness ==
  /\ pc = "done" /\ closeCount = 1 /\ downloadFinished /\ ~ctxDone
  /\ NumTimeout >= 1 /\ NumError = 0 /\ quitReceived = "no"
  /\ sent[Len(sent)].type = "ProgressMsg"

\* C2: at most one ErrorMsg is sent, and after it nothing more is sent: the
\* goroutine is about to close the channel or has closed it
C2_OneErrorThenClose ==
  /\ [](NumError <= 1)
  /\ [](NumError = 1 => sent[Len(sent)].type = "ErrorMsg"
                        /\ pc \in {"closing", "done"})
  /\ [][NumError = 1 => sent' = sent /\ requests' = requests]_vars

\* an ErrorMsg was sent after earlier events and the channel is closed
C2_Witness ==
  NumError = 1 /\ Len(sent) >= 2 /\ closeCount = 1

\* C3: no step taken while continueUntilComplete is true sends a TimeoutMsg
C3_TimeoutOnlyInteractive ==
  [][continueUntilComplete => Count(sent', "TimeoutMsg") = NumTimeout]_vars

\* the mode was switched by a decision and two more requests were issued
C3_Witness ==
  continueUntilComplete /\ NumTimeout = 1 /\ requests >= 3

\* C4 as claimed: after a success record was observed no request is issued
\* and neither a TimeoutMsg nor an ErrorMsg is sent
C4_NothingAfterSuccess ==
  [][downloadFinished =>
       /\ requests' = requests
       /\ Count(sent', "TimeoutMsg") = NumTimeout
       /\ Count(sent', "ErrorMsg") = NumError]_vars

\* the ProgressMsg of a success record is in sent at index i
IsSuccessMsg(i) ==
  sent[i].type = "ProgressMsg" /\ sent[i].Status = "success"

\* C5 as claimed (its safety part): without cancellation, once an attempt
\* has yielded a success record no ErrorMsg is sent and no ProgressMsg
\* follows the ProgressMsg of the success record
C5_SuccessEndsCleanly ==
  (downloadFinished /\ ~ctxDone) =>
     /\ NumError = 0
     /\ \A i \in 1..Len(sent) : \A j \in 1..Len(sent) :
          (i < j /\ IsSuccessMsg(i)) => sent[j].type # "ProgressMsg"

\* C6 as claimed: after "Quit" was pushed while records were streaming (no
\* TimeoutMsg outstanding, nothing left in the channel) nothing more is sent
C6_QuitMidStreamHonored ==
  [][quitMark => sent' = sent]_vars

\* C7 as claimed, read in favour of the code: a send that was already under
\* way when ctx was cancelled may complete, but once ctx is cancelled
\* PullModel begins no send of a ProgressMsg, TimeoutMsg or ErrorMsg
C7_NoEventAfterCancel ==
  [][(ctxDone /\ pc \notin SendPcs) => pc' \notin SendPcs]_vars

\* C8 as claimed: once ctx is cancelled PullModel is never in a send on
\* progressCh that only a receive of the consumer can complete
C8_NoBlockingSendAfterCancel ==
  ctxDone => ~(pc \in SendPcs /\ Len(sent) - received >= progressCap)

\* C9: once PullModel has read "Quit" (top of the loop or after a
\* TimeoutMsg) it sends nothing, issues no request and closes the channel
C9_QuitCloses ==
  /\ [](quitReceived # "no" =>
          /\ pc \in {"closing", "done"}
          /\ pc = "done" => closeCount = 1)
  /\ [][quitReceived # "no" => sent' = sent /\ requests' = requests]_vars

\* "Quit" was found pending at the top of the loop after a continued timeout
C9_Witness ==
  quitReceived = "top" /\ NumTimeout >= 1 /\ pc = "done" /\ closeCount = 1

\* attempts that have ended, and TimeoutMsgs sent or being sent
AttemptsEnded == requests - (IF pc \in {"scan", "sendProgress"} THEN 1 ELSE 0)
TimeoutsDue   == NumTimeout + (IF pc = "sendTimeout" THEN 1 ELSE 0)

\* C10: in Interactive mode, while every attempt times out and every
\* TimeoutMsg is answered with RetryOnce, the TimeoutMsgs match the ended
\* attempts one to one and the mode stays Interactive
C10_OneTimeoutPerAttempt ==
  /\ []((retryOnceRun /\ ~ctxDone /\ ~continueUntilComplete) =>
          /\ TimeoutsDue = AttemptsEnded
          /\ pc \in {"top", "request"} => NumTimeout = requests)
  /\ [][(retryOnceRun' /\ ~continueUntilComplete) => ~continueUntilComplete']_vars

\* three attempts timed out and three TimeoutMsgs were sent
C10_Witness ==
  /\ retryOnceRun /\ ~ctxDone /\ ~continueUntilComplete
  /\ pushes = 2 /\ requests = 3 /\ NumTimeout = 3

\* C11: continueUntilComplete never goes from true back to false
C11_ModeMonotonic ==
  [][continueUntilComplete => continueUntilComplete']_vars

\* the mode was switched by a decision after a TimeoutMsg; a later decision
\* was read at the top of the loop and a later attempt timed out silently
C11_Witness ==
  /\ continueUntilComplete /\ NumTimeout = 1
  /\ pushes = 2 /\ userChoiceCh = <<>> /\ quitReceived = "no"
  /\ requests = 3 /\ pc = "top"

\* the step ends an attempt (client.Do fails or answers a non-success
\* status, or the scan loop is left) with one of the given outcomes
EndsAttemptWith(outcomes) ==
  /\ requests' # requests \/ lastOutcome = "ok"
  /\ lastOutcome' \in outcomes

\* an ErrorMsg has been sent or is being sent
ErrorReported == NumError > 0 \/ pc = "sendError"

\* C12 as claimed: an ErrorMsg is sent only after a request-construction
\* failure or a non-success HTTP status
C12_ErrorOnlyForRequestOrStatus ==
  ErrorReported => lastOutcome \in {"createError", "badStatus"}

\* C12, amended: an ErrorMsg is sent only after a request-construction
\* failure, a failure of client.Do that is not a timeout, a non-success HTTP
\* status or a read error that is not a deadline; an attempt that timed out
\* or whose stream ended cleanly is never followed by an ErrorMsg, it is
\* retried, reported by a TimeoutMsg or, after success, closed
C12_ErrorCauses ==
  /\ [](ErrorReported =>
          lastOutcome \in {"createError", "doError", "badStatus", "readerr"})
  /\ [][EndsAttemptWith({"doTimeout", "deadline", "eof"}) =>
           /\ pc' \in {"top", "sendTimeout", "closing"}
           /\ sent' = sent]_vars

\* without any cancellation a read error in the middle of the stream was
\* reported by an ErrorMsg and the channel is closed
C12_Witness ==
  /\ NumError = 1 /\ lastOutcome = "readerr" /\ ~ctxDone
  /\ Len(sent) = 2 /\ pc = "done" /\ closeCount = 1

C14_BadStatusIsFatal ==
  /\ [](lastOutcome = "badStatus" =>
          /\ pc \in {"sendError", "closing", "done"}
          /\ pc = "sendError" => (NumError = 0 /\ msg.Code = lastStatus)
          /\ pc \in {"closing", "done"} =>
                /\ NumError = 1
                /\ sent[Len(sent)].type = "ErrorMsg"
                /\ sent[Len(sent)].Code = lastStatus
          /\ pc = "done" => closeCount = 1)
  /\ [][lastOutcome = "badStatus" =>
           /\ requests' = requests
           /\ Count(sent', "TimeoutMsg") = NumTimeout]_vars

\* the second attempt, made after a continued timeout, was answered with
\* status 500; the ErrorMsg was sent and the channel is closed
C14_Witness ==
  /\ lastOutcome = "badStatus" /\ lastStatus = 500 /\ requests = 2
  /\ NumTimeout = 1 /\ NumError = 1 /\ pc = "done" /\ closeCount = 1

\* positions in which PullModel waits for a decision after a TimeoutMsg
WaitPcs == {"wait", "waitInScan"}

\* C17: while PullModel waits for a decision and ctx is cancelled it can
\* leave the wait, and with no decision to read it leaves it only by the
\* cancellation branch; after that it sends nothing, issues no request and
\* closes progressCh
C17_CancelEndsWait ==
  /\ []((pc \in WaitPcs /\ ctxDone) => ENABLED WaitCancelled)
  /\ [][(pc \in WaitPcs /\ ctxDone /\ ~ChoiceReady /\ pc' # pc) =>
           cancelSeen' = "wait"]_vars
  /\ [](cancelSeen = "wait" =>
          /\ pc \in {"closing", "done"}
          /\ pc = "done" => closeCount = 1)
  /\ [][cancelSeen = "wait" => sent' = sent /\ requests' = requests]_vars

\* a TimeoutMsg was sent, no decision was ever pushed, ctx was cancelled
\* and PullModel has closed the channel
C17_Witness ==
  /\ cancelSeen = "wait" /\ pushes = 0 /\ NumTimeout = 1 /\ Len(sent) = 1
  /\ pc = "done" /\ closeCount = 1

\* C18: when the stream of an attempt ends without a read error and no
\* success record has been seen, PullModel restarts the retry loop without
\* sending anything if continueUntilComplete is true, and otherwise goes on
\* to send one TimeoutMsg and to wait for a decision; no ErrorMsg follows
C18_EndWithoutSuccess ==
  /\ [][(EndsAttemptWith({"eof"}) /\ ~downloadFinished) =>
           /\ sent' = sent
           /\ continueUntilComplete => pc' = "top"
           /\ ~continueUntilComplete => pc' = "sendTimeout"]_vars
  /\ [][(lastOutcome = "eof" /\ pc = "sendTimeout" /\ sent' # sent) =>
           /\ sent' = Append(sent, TimeoutMsg)
           /\ pc' = "wait"]_vars
  /\ [](lastOutcome = "eof" =>
          /\ ~ErrorReported
          /\ pc = "wait" =>
                (sent[Len(sent)] = TimeoutMsg /\ ~ENABLED SendTimeout))

\* two records without success were forwarded, the stream ended, one
\* TimeoutMsg was sent and PullModel waits for a decision
C18_Witness ==
  /\ lastOutcome = "eof" /\ ~downloadFinished /\ ~ctxDone /\ pc = "wait"
  /\ Len(scanned) = 2 /\ Len(sent) = 3 /\ NumTimeout = 1

\* the lines of scanned that decoded to a record
IsRecordLine(l) == l.kind = "record"
RecordsScanned  == SelectSeq(scanned, IsRecordLine)

\* the ProgressMsgs sent, followed by the one being sent
IsProgressMsg(m) == m.type = "ProgressMsg"
ProgressSent ==
  SelectSeq(sent, IsProgressMsg)
    \o (IF pc = "sendProgress" THEN <<msg>> ELSE <<>>)

\* C19: the step that reads a line failing to decode sends nothing, closes
\* nothing, issues no request and stays in the scan loop; the ProgressMsgs
\* are as many as the record lines read, whatever malformed lines lie
\* between them; a success record read after a malformed line still sets
\* downloadFinished, on which the clean end of the stream closes the channel
C19_MalformedSkipped ==
  /\ [][scanned' = Append(scanned, MalformedLine) =>
           /\ pc = "scan" /\ pc' = "scan"
           /\ sent' = sent /\ closeCount' = closeCount
           /\ requests' = requests
           /\ downloadFinished' = downloadFinished]_vars
  /\ [](Len(ProgressSent) = Len(RecordsScanned))
  /\ []((\E i \in 1..Len(scanned) :
            IsRecordLine(scanned[i]) /\ scanned[i].rec.Status = "success")
          => downloadFinished)
  /\ [][(EndsAttemptWith({"eof"}) /\ downloadFinished) => pc' = "closing"]_vars

\* a malformed line was skipped, the success record after it was forwarded
\* and the session completed
C19_Witness ==
  /\ Len(scanned) = 2 /\ scanned[1] = MalformedLine
  /\ IsRecordLine(scanned[2]) /\ scanned[2].rec.Status = "success"
  /\ Len(sent) = 1 /\ sent[1].Status = "success"
  /\ ~ctxDone /\ lastOutcome = "eof" /\ pc = "done" /\ closeCount = 1

\* C20: the ProgressMsgs sent (with the one being sent) are the records
\* decoded so far, one message per record, in the order the lines were read,
\* with Status, Completed and Total unchanged; a session of one attempt
\* whose stream ended cleanly after a success record, with no cancellation
\* seen, has sent exactly these messages and closed the channel
C20_ProgressMirrorsRecords ==
  /\ Len(ProgressSent) = Len(RecordsScanned)
  /\ \A i \in 1..Len(RecordsScanned) :
        /\ ProgressSent[i].Status = RecordsScanned[i].rec.Status
        /\ ProgressSent[i].Completed = RecordsScanned[i].rec.Completed
        /\ ProgressSent[i].Total = RecordsScanned[i].rec.Total
  /\ (/\ pc = "done" /\ requests = 1 /\ lastOutcome = "eof"
      /\ downloadFinished /\ cancelSeen = "no") =>
        /\ sent = ProgressSent
        /\ closeCount = 1

\* two records, the second a success, were read in one attempt; the consumer
\* received the two ProgressMsgs and the channel is closed
C20_Witness ==
  /\ pc = "done" /\ requests = 1 /\ ~ctxDone /\ closeCount = 1
  /\ Len(RecordsScanned) = 2
  /\ RecordsScanned[1].rec.Status = "downloading"
  /\ RecordsScanned[2].rec.Status = "success"
  /\ Len(sent) = 2 /\ received = 2

\* Update is in its send on userChoiceCh and the value has not been received
UIBlocked == uiState = "sending" /\ userChoiceCh # <<>>

\* C15 as claimed: the UI is never in the send of "Quit" that follows an
\* ErrorMsg while PullModel has returned and can no longer receive it
C15_ErrorQuitNotStuck ==
  ~(/\ UIBlocked
    /\ delivered >= 1 /\ sent[delivered].type = "ErrorMsg"
    /\ pc = "done")

\* C16 as claimed, for the sessions it lists (no error reported): after "q"
\* or "ctrl+c" the UI is never in its send on userChoiceCh while PullModel
\* has returned or is in a send on progressCh that the forwarder, itself
\* inside p.Send, cannot receive
C16_QuitKeyNotStuck ==
  ~(/\ quitting /\ UIBlocked /\ ~ErrorReported
    /\ \/ pc = "done"
       \/ pc \in SendPcs /\ ~CanSend)

\* the step in which PullModel reads a Continue decision in a wait that
\* follows a TimeoutMsg
ReadsContinueInWait ==
  /\ pc \in WaitPcs
  /\ ChoiceReady
  /\ Head(userChoiceCh) \in {RetryOnce, RetryUntilComplete}
  /\ userChoiceCh' = Tail(userChoiceCh)

\* C21: a Continue decision read in a wait that follows a TimeoutMsg, at
\* every place where a TimeoutMsg is sent, starts a new loop iteration (the
\* start-of-iteration check, then a new request); "Continue (until next
\* error)" leaves the mode as it is and "Continue (until download completed)"
\* sets it to continue-until-complete
C21_ContinueStartsIteration ==
  [][ReadsContinueInWait =>
       /\ pc' = "top"
       /\ continueUntilComplete' =
            (continueUntilComplete \/ Head(userChoiceCh) = RetryUntilComplete)
    ]_vars

\* values PullModel has received from userChoiceCh so far
ChoicesReceived == pushes - Len(userChoiceCh)

\* C22 as stated: at every point of a session the number of values received
\* from userChoiceCh is at most the number of TimeoutMsgs sent
C22_OneDecisionPerTimeout == ChoicesReceived <= NumTimeout

\* C22: in the waits that follow a TimeoutMsg PullModel receives at most one
\* value per TimeoutMsg sent; every other value it receives is taken by the
\* start-of-iteration check, at most one per loop iteration, whether or not
\* a TimeoutMsg was sent
C22_OneWaitReadPerTimeout ==
  /\ waitReads <= NumTimeout
  /\ pc \in WaitPcs => waitReads < NumTimeout
  /\ ChoicesReceived - waitReads <= requests + 1

\* a decision pushed before any timeout was taken by the start-of-iteration
\* check, and a later one by the wait after the TimeoutMsg
C22_Witness ==
  /\ NumTimeout = 1
  /\ waitReads = 1
  /\ ChoicesReceived = 2

\* C23: when ctx is cancelled at the start of a loop iteration, the
\* start-of-iteration check ends the session whatever else is pending: no
\* request is issued, no event is sent and the progress channel is closed
C23_CancelledIterationCloses ==
  [][(pc = "top" /\ ctxDone /\ pc' # pc) =>
       (pc' = "closing" /\ requests' = requests /\ sent' = sent)]_vars

\* C24: a decision string that PullModel does not recognize, read in a wait
\* that follows a TimeoutMsg, is treated like "Quit": the progress channel is
\* closed and PullModel returns, with no further event, no further request
\* and the mode left as it was
C24_UnknownChoiceQuits ==
  /\ [][(/\ pc \in WaitPcs
         /\ ChoiceReady
         /\ Head(userChoiceCh) = Unrecognized
         /\ userChoiceCh' = Tail(userChoiceCh)) =>
          /\ pc' = "closing"
          /\ UNCHANGED <<continueUntilComplete, sent, requests>>]_vars
  /\ [][Returning =>
          /\ pc' \in {pc, "done"}
          /\ closeCount' = IF pc' = "done" THEN 1 ELSE 0
          /\ UNCHANGED <<continueUntilComplete, sent, requests>>]_vars

C24_Witness ==
  /\ pc = "done"
  /\ closeCount = 1
  /\ waitReads = 1
  /\ NumTimeout = 1
  /\ quitReceived = "no"
  /\ cancelSeen = "no"
  /\ requests = 1
  /\ sent[Len(sent)] = TimeoutMsg

\* the response body of the current attempt is open: the response was
\* obtained and PullModel has neither closed the body nor returned
BodyOpen == lastOutcome \in {"ok", "badStatus"} /\ pc # "done"

\* C25: the response body of an attempt is closed before the next attempt is
\* issued, so that at no time more than one response body of a session is open
C25_OneBodyOpen ==
  /\ [](~(staleBody /\ BodyOpen))
  /\ [][requests' # requests => ~staleBody]_vars

\* positions in which the attempt issued last is still reading its stream
StreamPcs == {"scan", "sendProgress", "sendTimeoutInScan", "waitInScan"}

\* attempts whose classification has been carried out: a TimeoutMsg sent or
\* a silent retry begun
Classified == NumTimeout + silentRetries

\* C26: events of different attempts are never interleaved: from the moment
\* attempt k+1 can be issued, and so before any of its events, attempts 1..k
\* have ended and each was classified by a TimeoutMsg or a silent retry; while
\* an attempt streams or is being classified the earlier ones are classified
C26_AttemptsNotInterleaved ==
  /\ pc \in {"top", "request"} =>
       /\ msg = NoMsg
       /\ requests >= 1 => lastOutcome \in {"doTimeout", "deadline", "eof"}
       /\ Classified >= requests
       /\ cancelSeen # "scan" => Classified = requests
  /\ pc \in StreamPcs =>
       /\ lastOutcome = "ok"
       /\ Classified >= requests - 1
       /\ cancelSeen # "scan" => Classified = requests - 1
  /\ pc \in {"sendTimeout", "sendError"} => Classified >= requests - 1
  /\ \A i \in 1..Len(sent) :
       sent[i].type = "ErrorMsg" => i = Len(sent)

\* a record of the first attempt, its TimeoutMsg, then a record of the second
C26_Witness ==
  /\ requests = 2
  /\ Len(sent) = 3
  /\ IsProgressMsg(sent[1])
  /\ sent[2] = TimeoutMsg
  /\ IsProgressMsg(sent[3])

\* C27: across the sessions of main's loop: once the user has selected
\* "Continue (until download completed)", every later session is started and
\* stays in continue-until-complete mode, no TimeoutMsg is sent in it and its
\* menu is never shown; after "Continue (until next error)" the next session
\* starts Interactive with the menu hidden, and a TimeoutMsg that reaches the
\* UI shows the menu again
C27_ModeAcrossSessions ==
  /\ [](mainContinue <=> prevChoice = RetryUntilComplete)
  /\ [](mainContinue =>
          /\ continueUntilComplete
          /\ NumTimeout = 0 /\ pc \notin {"sendTimeout", "sendTimeoutInScan"}
          /\ ~showList
          /\ selectedChoice \in {"", Quit})
  /\ [][mainContinue => mainContinue']_vars
  /\ [][prevChoice' # prevChoice =>
          /\ prevChoice' = selectedChoice
          /\ continueUntilComplete' = (selectedChoice = RetryUntilComplete)
          /\ requests' = 0 /\ sent' = <<>> /\ ~showList']_vars
  /\ [][(delivered' = delivered + 1 /\ uiState = "idle"
           /\ sent[delivered'] = TimeoutMsg) => showList']_vars

\* a session started after "Continue (until next error)" is Interactive and
\* its timeout has brought the menu back
C27_Witness ==
  /\ prevChoice = RetryOnce
  /\ ~mainContinue /\ ~continueUntilComplete
  /\ NumTimeout = 1 /\ showList

\* a session started after "Continue (until download completed)" retried a
\* timed-out attempt with no TimeoutMsg and completed
C27_WitnessAuto ==
  /\ mainContinue
  /\ silentRetries >= 1 /\ downloadFinished
  /\ pc = "done" /\ uiState = "exited"

\* C28: in Interactive mode a new request is issued after a failed attempt
\* only when exactly one TimeoutMsg was sent for it and a Continue decision
\* was then received; between the TimeoutMsg and the decision or cancellation
\* nothing is sent and no request is issued; hence the requests number at
\* most 1 + the Continue decisions received + the silent retries
C28_RequestNeedsContinue ==
  /\ []((~continueUntilComplete /\ pc = "request" /\ requests >= 1) =>
          /\ sent[Len(sent)] = TimeoutMsg
          /\ NumTimeout = requests
          /\ continueReads = requests)
  /\ [](requests <= 1 + continueReads + silentRetries)
  /\ [][(pc \in WaitPcs) => (sent' = sent /\ requests' = requests)]_vars

\* C29: after a success record, while ctx is not cancelled, every further
\* record of the stream is still forwarded as a ProgressMsg; when the stream
\* then ends cleanly PullModel, in either mode, goes to close(progressCh) and
\* return with nothing pending, and from there sends no TimeoutMsg, no
\* ErrorMsg, nothing at all, and issues no request
C29_SuccessThenCleanEnd ==
  /\ [][(pc = "scan" /\ downloadFinished /\ ~ctxDone
           /\ Len(scanned') > Len(scanned)
           /\ IsRecordLine(scanned'[Len(scanned')])) =>
          /\ pc' = "sendProgress"
          /\ msg' = ProgressMsg(scanned'[Len(scanned')].rec)]_vars
  /\ [][(pc = "sendProgress" /\ pc' # pc) =>
          (pc' = "scan" /\ sent' = Append(sent, msg))]_vars
  /\ [][(EndsAttemptWith({"eof"}) /\ downloadFinished) =>
          /\ pc' = "closing" /\ msg' = NoMsg
          /\ UNCHANGED <<sent, requests, continueUntilComplete>>]_vars
  /\ [][(pc = "closing" /\ lastOutcome = "eof") =>
          /\ pc' \in {pc, "done"}
          /\ closeCount' = IF pc' = "done" THEN 1 ELSE 0
          /\ UNCHANGED <<sent, requests>>]_vars
  /\ [][pc = "done" => UNCHANGED <<pc, sent, requests, closeCount>>]_vars

\* the record after the success record was forwarded, the stream ended and
\* the channel was closed, with one request and no TimeoutMsg or ErrorMsg
C29_Witness ==
  /\ Len(sent) = 2
  /\ IsProgressMsg(sent[1]) /\ sent[1].Status = "success"
  /\ IsProgressMsg(sent[2]) /\ sent[2].Status = "downloading"
  /\ lastOutcome = "eof" /\ requests = 1
  /\ pc = "done" /\ closeCount = 1

\* PullModel can hand a line of the stream to json.Unmarshal
ScanSeesRecord == pc = "scan" /\ ~ctxDone

\* C30: once PullModel has seen ctx cancelled while reading a stream it
\* forwards no ProgressMsg for the rest of the session: the line scanned at
\* that moment is not decoded, and neither it nor any later record is sent
C30_NoProgressAfterScanCancel ==
  /\ [][(cancelSeen' = "scan" /\ lines' # lines) =>
          (scanned' = scanned /\ pc' # "sendProgress")]_vars
  /\ [][cancelSeen # "no" =>
          /\ pc' # "sendProgress"
          /\ ~ScanSeesRecord'
          /\ Count(sent', "ProgressMsg") = Count(sent, "ProgressMsg")]_vars

\* a record was forwarded, then cancellation was seen at the next line: one
\* ProgressMsg for two lines scanned
C30_Witness ==
  /\ cancelSeen = "scan"
  /\ lines = 2
  /\ Count(sent, "ProgressMsg") = 1
  /\ IsProgressMsg(sent[1])
  /\ pc \in {"scan", "waitInScan"}

\* the step in which PullModel receives "Quit" from userChoiceCh
ReadsQuit ==
  /\ ChoiceReady
  /\ Head(userChoiceCh) = Quit
  /\ userChoiceCh' = Tail(userChoiceCh)

\* C31: when "Quit" is the value to be received from userChoiceCh at the
\* start of a loop iteration, in either mode, PullModel leaves the
\* start-of-iteration check only to close the progress channel and return,
\* with no request issued and no event sent; and in continue-until-complete
\* mode no other place receives a "Quit": no TimeoutMsg is being sent or
\* waited on there
C31_QuitAtIterationStart ==
  /\ [][(pc = "top" /\ ChoiceReady /\ Head(userChoiceCh) = Quit /\ pc' # pc) =>
          (pc' = "closing" /\ UNCHANGED <<sent, requests>>)]_vars
  /\ [][(pc = "closing") =>
          (pc' \in {pc, "done"} /\ UNCHANGED <<sent, requests>>)]_vars
  /\ [][(continueUntilComplete /\ ReadsQuit) => pc = "top"]_vars
  /\ [](continueUntilComplete =>
          pc \notin {"sendTimeout", "sendTimeoutInScan", "wait", "waitInScan"})

\* in continue-until-complete mode an attempt was retried silently and the
\* "Quit" pending at the start of the next iteration ended the session
C31_Witness ==
  /\ continueUntilComplete
  /\ silentRetries = 1 /\ requests = 1
  /\ quitReceived = "top"
  /\ sent = <<>>
  /\ pc = "done" /\ closeCount = 1

\* C32: within a session continueUntilComplete goes from false to true only
\* in the step that receives "Continue (until download completed)" in a wait
\* that follows a TimeoutMsg; a value received by the start-of-iteration
\* check leaves the mode as it is and, unless it is "Quit", is discarded:
\* PullModel goes on to the request as the default branch does, and nothing
\* else of the session changes
C32_ModeSwitchOnlyInWait ==
  /\ [][(~continueUntilComplete /\ continueUntilComplete') =>
          /\ pc \in WaitPcs
          /\ ChoiceReady
          /\ Head(userChoiceCh) = RetryUntilComplete
          /\ userChoiceCh' = Tail(userChoiceCh)]_vars
  /\ [][(pc = "top" /\ ChoiceReady /\ userChoiceCh' = Tail(userChoiceCh)) =>
          /\ continueUntilComplete' = continueUntilComplete
          /\ Head(userChoiceCh) # Quit =>
               /\ pc' = "request"
               /\ UNCHANGED <<downloadFinished, msg, sent, received, closeCount,
                              requests, lines, pushes, scanned, lastOutcome,
                              lastStatus, staleBody, ctxDone>>]_vars

\* one value was discarded by the start-of-iteration check and the mode was
\* switched by the other, received in the wait after the TimeoutMsg
C32_Witness ==
  /\ continueUntilComplete
  /\ pushes = 2 /\ userChoiceCh = <<>>
  /\ NumTimeout = 1 /\ waitReads = 1 /\ continueReads = 1
  /\ quitReceived = "no"

\* C33: downloadFinished is never reset within a session; once it is set,
\* every attempt whose stream ends cleanly leads to the close of the progress
\* channel, whether or not that attempt saw a success record; and this exit
\* is the only one taken straight from the end of the scanner loop (by break),
\* every other close being reached from the start-of-iteration check, from a
\* wait or after the send of an ErrorMsg (close followed by return)
C33_FinishedIsSticky ==
  /\ [][downloadFinished => downloadFinished']_vars
  /\ [][(EndsAttemptWith({"eof"}) /\ downloadFinished) => pc' = "closing"]_vars
  /\ [][(pc # "closing" /\ pc' = "closing") =>
          IF pc = "scan"
          THEN downloadFinished /\ lastOutcome' = "eof"
          ELSE pc \in {"top", "wait", "waitInScan", "sendError"}]_vars

\* the only line of the session, a success record, was scanned by the first
\* attempt, whose stream then failed and was reported by a TimeoutMsg; the
\* second attempt ended cleanly with no line and the session is closed
C33_Witness ==
  /\ downloadFinished
  /\ requests = 2 /\ lines = 1
  /\ Len(sent) = 2
  /\ IsProgressMsg(sent[1]) /\ sent[1].Status = "success"
  /\ sent[2] = TimeoutMsg
  /\ cancelSeen = "no" /\ lastOutcome = "eof"
  /\ pc = "closing"

\* C34: whatever messages Update receives in a session, quitUICh is closed
\* at most once: Update never executes close(m.quitUICh) on the closed
\* channel, which would panic
C34_QuitUIClosedOnce == uiState # "panicked"

\* C35: in a session the UI sends a Continue decision on userChoiceCh only
\* after it has taken a TimeoutMsg: Enter sends only while the list is shown,
\* the list is shown only after a TimeoutMsg, and while no TimeoutMsg has
\* been taken the only value the UI sends is "Quit"
C35_ContinueOnlyAfterTimeout ==
  /\ [](showList =>
          \E i \in 1..delivered : sent[i] = TimeoutMsg)
  /\ [][(pushes' = pushes + 1) =>
          LET choice == userChoiceCh'[Len(userChoiceCh')]
          IN  /\ choice \in ListItems
              /\ choice # Quit =>
                   /\ showList
                   /\ \E i \in 1..delivered : sent[i] = TimeoutMsg
              /\ ~showList => choice = Quit]_vars
  /\ [](selectedChoice \in {RetryOnce, RetryUntilComplete} => showList)

\* the UI took a TimeoutMsg and Enter sent "Continue (until next error)"
C35_Witness ==
  /\ showList
  /\ selectedChoice = RetryOnce
  /\ uiState = "sending"
  /\ userChoiceCh = <<RetryOnce>>
  /\ pc = "wait"

\* C36: main starts another session only when the session that ended left
\* one of the two Continue choices and its context has been cancelled; the
\* new session starts PullModel afresh under a live context. When the final
\* choice is "Quit" or empty, no session can be started, main sets shouldQuit
\* and nothing of the program runs after that
C36_SessionsFollowChoice ==
  /\ [][(uiState = "exited" /\ uiState' = "idle") =>
          /\ selectedChoice \in {RetryOnce, RetryUntilComplete}
          /\ ctxDone /\ ~ctxDone'
          /\ pc' = "top" /\ requests' = 0
          /\ prevChoice' = selectedChoice
          /\ ~shouldQuit']_vars
  /\ [][~shouldQuit]_vars
  /\ []((uiState = "exited" /\ ctxDone /\ ~shouldQuit
           /\ selectedChoice \in {"", Quit})
          => (ENABLED MainEnd /\ ~ENABLED MainNextSession))
  /\ [](shouldQuit =>
          /\ selectedChoice \in {"", Quit}
          /\ uiState = "exited" /\ ctxDone)
  /\ [][shouldQuit' => (~shouldQuit /\ selectedChoice \in {"", Quit})]_vars

\* a second session, started by "Continue (Retry Once)", in which the
\* download completed, after which main has ended
C36_Witness ==
  /\ shouldQuit
  /\ prevChoice = RetryOnce
  /\ selectedChoice = ""
  /\ downloadFinished /\ closeCount = 1

\* main has ended after the user quit the first session
C36_WitnessQuit ==
  /\ shouldQuit
  /\ prevChoice = ""
  /\ selectedChoice = Quit

\* C37: Update(ProgressMsg) always replaces status with the status of the
\* message; for Total > 0 percent becomes Completed / Total; for any other
\* Total percent stays exactly as it was, which is 0 as long as no sized
\* message has been handled; nothing else of the Model changes
C37_ProgressUpdatesStatusAndPercent ==
  /\ [][(uiState = "idle" /\ delivered' = delivered + 1
           /\ sent[delivered + 1].type = "ProgressMsg") =>
          LET m == sent[delivered + 1]
          IN  /\ status' = m.Status
              /\ (m.Total > 0) =>
                   /\ percent'[2] > 0
                   /\ percent'[1] * m.Total = m.Completed * percent'[2]
              /\ ~(m.Total > 0) => percent' = percent
              /\ UNCHANGED <<uiState, showList, quitting, selectedChoice,
                             quitUIClosed, quitPending>>]_vars
  /\ []((\A i \in 1..delivered :
           sent[i].type = "ProgressMsg" => ~(sent[i].Total > 0))
          => percent = ZeroPercent)

\* a message of size 1 of 2 was handled, then one with Total = 0: the status
\* is that of the second, percent is still one half
C37_Witness ==
  /\ delivered = 2
  /\ sent[1] = [type |-> "ProgressMsg", Status |-> "downloading",
                Completed |-> 1, Total |-> 2]
  /\ sent[2] = [type |-> "ProgressMsg", Status |-> "starting",
                Completed |-> 0, Total |-> 0]
  /\ status = "starting"
  /\ percent = <<1, 2>>

\* a first message with Total = 0: the status is replaced, percent is 0
C37_WitnessUnsized ==
  /\ delivered = 1
  /\ sent[1].type = "ProgressMsg" /\ sent[1].Total = 0
  /\ status = sent[1].Status
  /\ percent = ZeroPercent

====
